---- MODULE Spec2Model ----
(***************************************************************************)
(* State-machine model of neopdf's SubGrid (src/neopdf/src/subgrid.rs)     *)
(* and of its versioned MetaData (src/neopdf/src/metadata.rs).             *)
(*                                                                         *)
(* A SubGrid is built once by SubGrid::new (fixed-rank, Grid6D) or by      *)
(* SubGrid::new_8d (variable-rank, Grid8D) and is then queried.            *)
(* Coordinates are f64 in the source; they are modelled by integers, so    *)
(* comparisons and squares are exact (no NaN, no rounding).                *)
(* A Rust panic is modelled as the result Panic of the call.               *)
(*                                                                         *)
(* A MetaData record is obtained by deserializing a descriptor or from     *)
(* MetaData::new_v1 / new_v2, and is then read, converted, saved and       *)
(* reloaded.  Spec is the life of a SubGrid, MetaSpec the life of a        *)
(* MetaData record, RangeSpec the use of a ParamRange on its own.          *)
(***************************************************************************)
EXTENDS Integers, Sequences, FiniteSets, TLC

VARIABLES sg, last, md

vars == <<sg, last, md>>

---------------------------------------------------------------------------
(* Bounds of the model *)

\* Largest flavor count handed to a constructor.
MaxFlav == 2

\* Query points have coordinates in 0..MaxCoord.
MaxCoord == 4

\* The payload length differs from the shape's element count by at most this.
MaxSlack == 1

\* Query points are at most this much longer than the longest expected point.
MaxExtra == 1

\* Node counts of an axis array: 1 is a pinned axis, 2 an active one.
AxisLens == {1, 2}

Coords == 0..MaxCoord

---------------------------------------------------------------------------
(* Results of calls *)

Panic == [ok |-> FALSE]

Ok(v) == [ok |-> TRUE, val |-> v]

NoSubGrid == [built |-> FALSE]

NoMetaData == [loaded |-> FALSE]

---------------------------------------------------------------------------
(* Arithmetic helpers *)

RECURSIVE Product(_)
Product(s) == IF Len(s) = 0 THEN 1 ELSE Head(s) * Product(Tail(s))

Min2(a, b) == IF a <= b THEN a ELSE b

RECURSIVE SumTo(_, _)
\* f[1] + ... + f[n]
SumTo(f, n) == IF n = 0 THEN 0 ELSE f[n] + SumTo(f, n - 1)

---------------------------------------------------------------------------
(* ParamRange *)

ParamRangeNew(min, max) == [min |-> min, max |-> max]

\* A faulty contains that leaves out the upper end.
ContainsHalfOpen(range, value) == value >= range.min /\ value < range.max

\* ParamRange::contains
Contains(range, value) == value >= range.min /\ value <= range.max

---------------------------------------------------------------------------
(* ndarray: an array is its shape, its strides and its flat storage; the   *)
(* element at a 0-based index is data[1 + sum of index*stride].            *)

\* Row-major (C order) strides of a shape.
CStrides(shape) ==
    [i \in 1..Len(shape) |-> Product(SubSeq(shape, i + 1, Len(shape)))]

\* Flat 0-based offset of an index under given strides.
Offset(strides, idx) ==
    SumTo([i \in 1..Len(idx) |-> idx[i] * strides[i]], Len(idx))

\* The index whose row-major offset in `shape` is off.
Unravel(shape, off) ==
    LET st == CStrides(shape)
    IN [i \in 1..Len(shape) |-> (off \div st[i]) % shape[i]]

At(arr, idx) == arr.data[1 + Offset(arr.strides, idx)]

InBounds(arr, idx) ==
    /\ Len(idx) = Len(arr.shape)
    /\ \A i \in 1..Len(idx) : idx[i] >= 0 /\ idx[i] < arr.shape[i]

\* All in-bounds indices of an array.
Indices(arr) ==
    {Unravel(arr.shape, o) : o \in 0..(Product(arr.shape) - 1)}

\* A faulty from_shape_vec that accepts a vector longer than the shape and
\* keeps its leading elements.
FromShapeVecLax(shape, v) ==
    IF Len(v) < Product(shape)
    THEN Panic
    ELSE Ok([shape |-> shape, strides |-> CStrides(shape),
             data |-> SubSeq(v, 1, Product(shape))])

\* ArrayBase::from_shape_vec with a plain (C order) shape: an error unless
\* the vector holds exactly the shape's number of elements.
FromShapeVec(shape, v) ==
    IF Len(v) # Product(shape)
    THEN Panic
    ELSE Ok([shape |-> shape, strides |-> CStrides(shape), data |-> v])

\* ArrayBase::permuted_axes: axis i of the result is axis perm[i] (0-based)
\* of the input; shape and strides are permuted, the storage is untouched.
PermutedAxes(arr, perm) ==
    [shape |-> [i \in 1..Len(perm) |-> arr.shape[perm[i] + 1]],
     strides |-> [i \in 1..Len(perm) |-> arr.strides[perm[i] + 1]],
     data |-> arr.data]

\* as_standard_layout().to_owned(): same logical array, storage rewritten
\* in row-major order of the (permuted) shape.
AsStandardLayout(arr) ==
    [shape |-> arr.shape,
     strides |-> CStrides(arr.shape),
     data |-> [o \in 1..Product(arr.shape) |->
                  At(arr, Unravel(arr.shape, o - 1))]]

---------------------------------------------------------------------------
(* SubGrid construction *)

\* A faulty permutation: the axes are left in the order of the payload.
LegacyPermIdentity == <<0, 1, 2, 3, 4, 5>>

\* The permutation SubGrid::new applies to the reshaped payload.
LegacyPerm == <<0, 1, 5, 2, 3, 4>>

\* The shape SubGrid::new reshapes the flat payload to.
NewShape(nucleon_numbers, alphas_values, kt_subgrid, x_subgrid, q2_subgrid, nflav) ==
    <<Len(nucleon_numbers), Len(alphas_values), Len(kt_subgrid),
      Len(x_subgrid), Len(q2_subgrid), nflav>>

\* A faulty new_8d shape: flavor last, as in the legacy payload.
New8dShapeFlavorLast(nucleon_numbers, alphas_values, xi_values, delta_values, kt_subgrid, x_subgrid, q2_subgrid, nflav) ==
    <<Len(nucleon_numbers), Len(alphas_values), Len(xi_values),
      Len(delta_values), Len(kt_subgrid), Len(x_subgrid), Len(q2_subgrid),
      nflav>>

\* The shape SubGrid::new_8d reshapes the flat payload to.
New8dShape(nucleon_numbers, alphas_values, xi_values, delta_values, kt_subgrid, x_subgrid, q2_subgrid, nflav) ==
    <<Len(nucleon_numbers), Len(alphas_values), Len(xi_values),
      Len(delta_values), Len(kt_subgrid), nflav, Len(x_subgrid),
      Len(q2_subgrid)>>

\* first().unwrap() / last().unwrap() succeed only on a non-empty vector.
AllNonEmpty(arrays) == \A i \in 1..Len(arrays) : Len(arrays[i]) > 0

AxisRange(v) == ParamRangeNew(v[1], v[Len(v)])

\* SubGrid::new: Ok(subgrid) or Panic.
SubGridNew(nucleon_numbers, alphas_values, kt_subgrid, x_subgrid, q2_subgrid, nflav, grid_data) ==
    IF ~AllNonEmpty(<<x_subgrid, q2_subgrid, kt_subgrid, nucleon_numbers,
                      alphas_values>>)
    THEN Panic
    ELSE
    LET raw == FromShapeVec(NewShape(nucleon_numbers, alphas_values,
                                     kt_subgrid, x_subgrid, q2_subgrid, nflav),
                            grid_data)
    IN IF ~raw.ok
       THEN Panic
       ELSE Ok([built |-> TRUE,
                xs |-> x_subgrid,
                q2s |-> q2_subgrid,
                kts |-> kt_subgrid,
                xis |-> <<0>>,
                deltas |-> <<0>>,
                grid |-> [kind |-> "Grid6D",
                          arr |-> AsStandardLayout(
                                      PermutedAxes(raw.val, LegacyPerm))],
                nucleons |-> nucleon_numbers,
                alphas |-> alphas_values,
                nucleons_range |-> AxisRange(nucleon_numbers),
                alphas_range |-> AxisRange(alphas_values),
                xi_range |-> ParamRangeNew(0, 0),
                delta_range |-> ParamRangeNew(0, 0),
                kt_range |-> AxisRange(kt_subgrid),
                x_range |-> AxisRange(x_subgrid),
                q2_range |-> AxisRange(q2_subgrid)])

\* SubGrid::new_8d: Ok(subgrid) or Panic.
SubGridNew8d(nucleon_numbers, alphas_values, xi_values, delta_values, kt_subgrid, x_subgrid, q2_subgrid, nflav, grid_data) ==
    IF ~AllNonEmpty(<<x_subgrid, q2_subgrid, kt_subgrid, xi_values,
                      delta_values, nucleon_numbers, alphas_values>>)
    THEN Panic
    ELSE
    LET raw == FromShapeVec(New8dShape(nucleon_numbers, alphas_values,
                                       xi_values, delta_values, kt_subgrid,
                                       x_subgrid, q2_subgrid, nflav),
                            grid_data)
    IN IF ~raw.ok
       THEN Panic
       ELSE Ok([built |-> TRUE,
                xs |-> x_subgrid,
                q2s |-> q2_subgrid,
                kts |-> kt_subgrid,
                xis |-> xi_values,
                deltas |-> delta_values,
                grid |-> [kind |-> "Grid8D", arr |-> raw.val],
                nucleons |-> nucleon_numbers,
                alphas |-> alphas_values,
                nucleons_range |-> AxisRange(nucleon_numbers),
                alphas_range |-> AxisRange(alphas_values),
                xi_range |-> AxisRange(xi_values),
                delta_range |-> AxisRange(delta_values),
                kt_range |-> AxisRange(kt_subgrid),
                x_range |-> AxisRange(x_subgrid),
                q2_range |-> AxisRange(q2_subgrid)])

---------------------------------------------------------------------------
(* Dimensionality classification *)

\* InterpolationConfig::from_dimensions: the class of an active-axis
\* pattern (an axis is active when it has more than one node), or Panic for
\* a pattern with no class.
FromDimensions(n_nucleons, n_alphas, n_xis, n_deltas, n_kts) ==
    LET mask == <<n_nucleons > 1, n_alphas > 1, n_xis > 1, n_deltas > 1,
                  n_kts > 1>>
    IN CASE mask = <<FALSE, FALSE, FALSE, FALSE, FALSE>> -> Ok("TwoD")
         [] mask = <<TRUE, FALSE, FALSE, FALSE, FALSE>> -> Ok("ThreeDNucleons")
         [] mask = <<FALSE, TRUE, FALSE, FALSE, FALSE>> -> Ok("ThreeDAlphas")
         [] mask = <<FALSE, FALSE, TRUE, FALSE, FALSE>> -> Ok("ThreeDXi")
         [] mask = <<FALSE, FALSE, FALSE, TRUE, FALSE>> -> Ok("ThreeDDelta")
         [] mask = <<FALSE, FALSE, FALSE, FALSE, TRUE>> -> Ok("ThreeDKt")
         [] mask = <<TRUE, TRUE, FALSE, FALSE, FALSE>> -> Ok("FourDNucleonsAlphas")
         [] mask = <<TRUE, FALSE, FALSE, FALSE, TRUE>> -> Ok("FourDNucleonsKt")
         [] mask = <<FALSE, TRUE, FALSE, FALSE, TRUE>> -> Ok("FourDAlphasKt")
         [] mask = <<FALSE, FALSE, TRUE, TRUE, FALSE>> -> Ok("FourDXiDelta")
         [] mask = <<FALSE, FALSE, TRUE, TRUE, TRUE>> -> Ok("FiveD")
         [] mask = <<TRUE, FALSE, TRUE, TRUE, TRUE>> -> Ok("SixD")
         [] mask = <<TRUE, TRUE, TRUE, TRUE, TRUE>> -> Ok("SevenD")
         [] OTHER -> Panic

\* SubGrid::interpolation_config
InterpolationConfig(s) ==
    FromDimensions(Len(s.nucleons), Len(s.alphas), Len(s.xis), Len(s.deltas),
                   Len(s.kts))

---------------------------------------------------------------------------
(* Queries *)

\* The range field of a subgrid by axis name.
RangeOf(s, axis) ==
    CASE axis = "nucleons" -> s.nucleons_range
      [] axis = "alphas" -> s.alphas_range
      [] axis = "xi" -> s.xi_range
      [] axis = "delta" -> s.delta_range
      [] axis = "kt" -> s.kt_range
      [] axis = "x" -> s.x_range
      [] axis = "q2" -> s.q2_range

\* contains_point's match: the expected point length of a class.
ExpectedLen(cfg) ==
    CASE cfg = "TwoD" -> 2
      [] cfg \in {"ThreeDNucleons", "ThreeDAlphas", "ThreeDXi", "ThreeDDelta",
                  "ThreeDKt"} -> 3
      [] cfg \in {"FourDNucleonsAlphas", "FourDNucleonsKt", "FourDAlphasKt",
                  "FourDXiDelta"} -> 4
      [] cfg = "FiveD" -> 5
      [] cfg = "SixD" -> 6
      [] cfg = "SevenD" -> 7

\* A faulty match: FourDAlphasKt checks the nucleons range for alphas.
ContainsAxesWrongPair(cfg) ==
    CASE cfg = "TwoD" -> <<>>
      [] cfg = "ThreeDNucleons" -> <<"nucleons">>
      [] cfg = "ThreeDAlphas" -> <<"alphas">>
      [] cfg = "ThreeDXi" -> <<"xi">>
      [] cfg = "ThreeDDelta" -> <<"delta">>
      [] cfg = "ThreeDKt" -> <<"kt">>
      [] cfg = "FourDNucleonsAlphas" -> <<"nucleons", "alphas">>
      [] cfg = "FourDNucleonsKt" -> <<"nucleons", "kt">>
      [] cfg = "FourDAlphasKt" -> <<"nucleons", "kt">>
      [] cfg = "FourDXiDelta" -> <<"xi", "delta">>
      [] cfg = "FiveD" -> <<"kt", "xi", "delta">>
      [] cfg = "SixD" -> <<"nucleons", "kt", "xi", "delta">>
      [] cfg = "SevenD" -> <<"nucleons", "alphas", "xi", "delta", "kt">>

\* contains_point's match: the ranges a class checks, in the order they are
\* zipped with the point.
ContainsAxes(cfg) ==
    CASE cfg = "TwoD" -> <<>>
      [] cfg = "ThreeDNucleons" -> <<"nucleons">>
      [] cfg = "ThreeDAlphas" -> <<"alphas">>
      [] cfg = "ThreeDXi" -> <<"xi">>
      [] cfg = "ThreeDDelta" -> <<"delta">>
      [] cfg = "ThreeDKt" -> <<"kt">>
      [] cfg = "FourDNucleonsAlphas" -> <<"nucleons", "alphas">>
      [] cfg = "FourDNucleonsKt" -> <<"nucleons", "kt">>
      [] cfg = "FourDAlphasKt" -> <<"alphas", "kt">>
      [] cfg = "FourDXiDelta" -> <<"xi", "delta">>
      [] cfg = "FiveD" -> <<"kt", "xi", "delta">>
      [] cfg = "SixD" -> <<"nucleons", "kt", "xi", "delta">>
      [] cfg = "SevenD" -> <<"nucleons", "alphas", "xi", "delta", "kt">>

\* A faulty final expression: the x coordinate is read before the length of
\* the point is compared.
ContainsCheckIndexFirst(s, points, expected_len, ranges) ==
    IF expected_len - 2 >= Len(points)
    THEN Panic
    ELSE IF ~Contains(s.x_range, points[expected_len - 2 + 1])
    THEN Ok(FALSE)
    ELSE IF expected_len - 1 >= Len(points)
    THEN Panic
    ELSE IF ~Contains(s.q2_range, points[expected_len - 1 + 1])
    THEN Ok(FALSE)
    ELSE Ok(/\ Len(points) = expected_len
            /\ \A i \in 1..Min2(Len(ranges), Len(points)) :
                  Contains(RangeOf(s, ranges[i]), points[i]))

\* The final expression of contains_point, evaluated left to right with
\* short-circuit &&; indexing a slice out of bounds panics.
ContainsCheck(s, points, expected_len, ranges) ==
    IF Len(points) # expected_len
    THEN Ok(FALSE)
    ELSE IF expected_len - 2 >= Len(points)
    THEN Panic
    ELSE IF ~Contains(s.x_range, points[expected_len - 2 + 1])
    THEN Ok(FALSE)
    ELSE IF expected_len - 1 >= Len(points)
    THEN Panic
    ELSE IF ~Contains(s.q2_range, points[expected_len - 1 + 1])
    THEN Ok(FALSE)
    ELSE Ok(\A i \in 1..Min2(Len(ranges), Len(points)) :
                Contains(RangeOf(s, ranges[i]), points[i]))

\* SubGrid::contains_point
ContainsPoint(s, points) ==
    LET cfg == InterpolationConfig(s)
    IN IF ~cfg.ok
       THEN Panic
       ELSE ContainsCheck(s, points, ExpectedLen(cfg.val),
                          ContainsAxes(cfg.val))

\* SubGrid::parameter_ranges: the axes whose ranges are gathered, in order.
ParameterRanges(s) ==
    (IF Len(s.nucleons) > 1 THEN <<"nucleons">> ELSE <<>>)
    \o (IF Len(s.alphas) > 1 THEN <<"alphas">> ELSE <<>>)
    \o (IF Len(s.xis) > 1 THEN <<"xi">> ELSE <<>>)
    \o (IF Len(s.deltas) > 1 THEN <<"delta">> ELSE <<>>)
    \o (IF Len(s.kts) > 1 THEN <<"kt">> ELSE <<>>)
    \o <<"x", "q2">>

\* A faulty closure: the gap itself, not its square.
SquaredGapLinear(range, p) ==
    IF p < range.min THEN range.min - p
    ELSE IF p > range.max THEN p - range.max
    ELSE 0

\* The closure of distance_to_point: squared gap of one coordinate.
SquaredGap(range, p) ==
    IF p < range.min THEN (range.min - p) * (range.min - p)
    ELSE IF p > range.max THEN (p - range.max) * (p - range.max)
    ELSE 0

\* SubGrid::distance_to_point
DistanceToPoint(s, points) ==
    LET ranges == ParameterRanges(s)
        n == Min2(Len(ranges), Len(points))
    IN Ok(SumTo([i \in 1..n |-> SquaredGap(RangeOf(s, ranges[i]), points[i])],
                n))

\* SubGrid::ranges
Ranges(s) ==
    Ok([nucleons |-> s.nucleons_range, alphas |-> s.alphas_range,
        xi |-> s.xi_range, delta |-> s.delta_range, kt |-> s.kt_range,
        x |-> s.x_range, q2 |-> s.q2_range])

\* ndarray slice with the leading axes fixed at `fixed` and the last two
\* axes kept whole: a 2-D view, or Panic when a fixed index is out of bounds.
Slice2(arr, fixed) ==
    IF \E i \in 1..Len(fixed) : fixed[i] >= arr.shape[i]
    THEN Panic
    ELSE LET nrows == arr.shape[Len(arr.shape) - 1]
             ncols == arr.shape[Len(arr.shape)]
         IN Ok([nrows |-> nrows, ncols |-> ncols,
                elems |-> [i \in 1..nrows |-> [j \in 1..ncols |->
                              At(arr, fixed \o <<i - 1, j - 1>>)]]])

\* A faulty prefix: the plane of the first flavor, whatever pid_index is.
SlicePrefixFirstFlavor(kind, pid_index) ==
    IF kind = "Grid6D"
    THEN <<0, 0, 0, 0>>
    ELSE <<0, 0, 0, 0, 0, 0>>

\* The index prefix grid_slice fixes for each variant.
SlicePrefix(kind, pid_index) ==
    IF kind = "Grid6D"
    THEN <<0, 0, pid_index, 0>>
    ELSE <<0, 0, 0, 0, 0, pid_index>>

\* A faulty grid_slice that slices whatever the class is.
GridSliceAnyClass(s, pid_index) ==
    Slice2(s.grid.arr, SlicePrefix(s.grid.kind, pid_index))

\* SubGrid::grid_slice
GridSlice(s, pid_index) ==
    LET cfg == InterpolationConfig(s)
    IN IF ~cfg.ok
       THEN Panic
       ELSE IF cfg.val = "TwoD"
       THEN Slice2(s.grid.arr, SlicePrefix(s.grid.kind, pid_index))
       ELSE Panic

\* GridData::as_6d
As6d(grid) == IF grid.kind = "Grid6D" THEN Ok(grid.arr) ELSE Panic

\* GridData::as_8d
As8d(grid) == IF grid.kind = "Grid8D" THEN Ok(grid.arr) ELSE Panic

\* SubGrid::grid_6d
Grid6d(s) == IF s.grid.kind = "Grid6D" THEN Ok(s.grid.arr) ELSE Panic

\* A faulty grid_8d that hands out the array of either variant.
Grid8dAnyRank(s) == Ok(s.grid.arr)

\* SubGrid::grid_8d
Grid8d(s) == IF s.grid.kind = "Grid8D" THEN Ok(s.grid.arr) ELSE Panic

\* SubGrid::is_8d
Is8d(s) == Ok(s.grid.kind = "Grid8D")

---------------------------------------------------------------------------
(* MetaData: the two schemas and their conversions                         *)
(*                                                                         *)
(* The f64 fields XiMin, XiMax, DeltaMin and DeltaMax are modelled by      *)
(* integers on an order-preserving scale: 0 is 0.0, Threshold is 1e-10 and *)
(* One is 1.0; the code only compares their magnitude with 1e-10 and       *)
(* copies them.                                                            *)

\* The 1e-10 of the version heuristic.
Threshold == 1

\* The 1.0 of the neutral xi range.
One == 2

\* enum InterpolatorType, in declaration order.
InterpolatorTypes ==
    <<"Bilinear", "LogBilinear", "LogBicubic", "LogTricubic",
      "InterpNDLinear", "LogChebyshev", "LogFourCubic">>

\* #[default] of InterpolatorType
DefaultInterpolatorType == "LogBicubic"

\* #[default] of SetType
DefaultSetType == "SpaceLike"

\* The fields of MetaDataV1, which MetaDataV2 has as well.
SharedFields ==
    {"set_desc", "set_index", "num_members", "x_min", "x_max", "q_min",
     "q_max", "flavors", "format", "alphas_q_values", "alphas_vals",
     "polarised", "set_type", "interpolator_type", "error_type",
     "hadron_pid", "git_version", "code_version", "flavor_scheme",
     "order_qcd", "alphas_order_qcd", "m_w", "m_z", "m_up", "m_down",
     "m_strange", "m_charm", "m_bottom", "m_top", "alphas_type",
     "number_flavors"}

\* The fields MetaDataV2 adds.
V2OnlyFields == {"xi_min", "xi_max", "delta_min", "delta_max"}

\* A faulty to_v1 that leaves the interpolator type at its default.
ToV1DefaultInterpolator(v2) ==
    [set_desc |-> v2.set_desc, set_index |-> v2.set_index,
     num_members |-> v2.num_members, x_min |-> v2.x_min, x_max |-> v2.x_max,
     q_min |-> v2.q_min, q_max |-> v2.q_max, flavors |-> v2.flavors,
     format |-> v2.format, alphas_q_values |-> v2.alphas_q_values,
     alphas_vals |-> v2.alphas_vals, polarised |-> v2.polarised,
     set_type |-> v2.set_type, interpolator_type |-> DefaultInterpolatorType,
     error_type |-> v2.error_type, hadron_pid |-> v2.hadron_pid,
     git_version |-> v2.git_version, code_version |-> v2.code_version,
     flavor_scheme |-> v2.flavor_scheme, order_qcd |-> v2.order_qcd,
     alphas_order_qcd |-> v2.alphas_order_qcd, m_w |-> v2.m_w,
     m_z |-> v2.m_z, m_up |-> v2.m_up, m_down |-> v2.m_down,
     m_strange |-> v2.m_strange, m_charm |-> v2.m_charm,
     m_bottom |-> v2.m_bottom, m_top |-> v2.m_top,
     alphas_type |-> v2.alphas_type, number_flavors |-> v2.number_flavors]

\* MetaDataV2::to_v1
ToV1(v2) ==
    [set_desc |-> v2.set_desc, set_index |-> v2.set_index,
     num_members |-> v2.num_members, x_min |-> v2.x_min, x_max |-> v2.x_max,
     q_min |-> v2.q_min, q_max |-> v2.q_max, flavors |-> v2.flavors,
     format |-> v2.format, alphas_q_values |-> v2.alphas_q_values,
     alphas_vals |-> v2.alphas_vals, polarised |-> v2.polarised,
     set_type |-> v2.set_type, interpolator_type |-> v2.interpolator_type,
     error_type |-> v2.error_type, hadron_pid |-> v2.hadron_pid,
     git_version |-> v2.git_version, code_version |-> v2.code_version,
     flavor_scheme |-> v2.flavor_scheme, order_qcd |-> v2.order_qcd,
     alphas_order_qcd |-> v2.alphas_order_qcd, m_w |-> v2.m_w,
     m_z |-> v2.m_z, m_up |-> v2.m_up, m_down |-> v2.m_down,
     m_strange |-> v2.m_strange, m_charm |-> v2.m_charm,
     m_bottom |-> v2.m_bottom, m_top |-> v2.m_top,
     alphas_type |-> v2.alphas_type, number_flavors |-> v2.number_flavors]

\* A faulty conversion that fills the xi range with zeros.
FromV1ZeroXi(v1) ==
    [set_desc |-> v1.set_desc, set_index |-> v1.set_index,
     num_members |-> v1.num_members, x_min |-> v1.x_min, x_max |-> v1.x_max,
     q_min |-> v1.q_min, q_max |-> v1.q_max, flavors |-> v1.flavors,
     format |-> v1.format, alphas_q_values |-> v1.alphas_q_values,
     alphas_vals |-> v1.alphas_vals, polarised |-> v1.polarised,
     set_type |-> v1.set_type, interpolator_type |-> v1.interpolator_type,
     error_type |-> v1.error_type, hadron_pid |-> v1.hadron_pid,
     git_version |-> v1.git_version, code_version |-> v1.code_version,
     flavor_scheme |-> v1.flavor_scheme, order_qcd |-> v1.order_qcd,
     alphas_order_qcd |-> v1.alphas_order_qcd, m_w |-> v1.m_w,
     m_z |-> v1.m_z, m_up |-> v1.m_up, m_down |-> v1.m_down,
     m_strange |-> v1.m_strange, m_charm |-> v1.m_charm,
     m_bottom |-> v1.m_bottom, m_top |-> v1.m_top,
     alphas_type |-> v1.alphas_type, number_flavors |-> v1.number_flavors,
     xi_min |-> 0, xi_max |-> 0, delta_min |-> 0, delta_max |-> 0]

\* impl From<MetaDataV1> for MetaDataV2
FromV1(v1) ==
    [set_desc |-> v1.set_desc, set_index |-> v1.set_index,
     num_members |-> v1.num_members, x_min |-> v1.x_min, x_max |-> v1.x_max,
     q_min |-> v1.q_min, q_max |-> v1.q_max, flavors |-> v1.flavors,
     format |-> v1.format, alphas_q_values |-> v1.alphas_q_values,
     alphas_vals |-> v1.alphas_vals, polarised |-> v1.polarised,
     set_type |-> v1.set_type, interpolator_type |-> v1.interpolator_type,
     error_type |-> v1.error_type, hadron_pid |-> v1.hadron_pid,
     git_version |-> v1.git_version, code_version |-> v1.code_version,
     flavor_scheme |-> v1.flavor_scheme, order_qcd |-> v1.order_qcd,
     alphas_order_qcd |-> v1.alphas_order_qcd, m_w |-> v1.m_w,
     m_z |-> v1.m_z, m_up |-> v1.m_up, m_down |-> v1.m_down,
     m_strange |-> v1.m_strange, m_charm |-> v1.m_charm,
     m_bottom |-> v1.m_bottom, m_top |-> v1.m_top,
     alphas_type |-> v1.alphas_type, number_flavors |-> v1.number_flavors,
     xi_min |-> One, xi_max |-> One, delta_min |-> 0, delta_max |-> 0]

\* enum MetaData: a loaded record of either variant.
V1(data) == [loaded |-> TRUE, ver |-> "V1", data |-> data]

V2(data) == [loaded |-> TRUE, ver |-> "V2", data |-> data]

\* MetaData::as_latest
AsLatest(m) == IF m.ver = "V1" THEN Ok(m.data) ELSE Ok(ToV1(m.data))

\* MetaData::as_latest_v2
AsLatestV2(m) == IF m.ver = "V1" THEN Ok(FromV1(m.data)) ELSE Ok(m.data)

\* MetaData::is_v2
IsV2(m) == Ok(m.ver = "V2")

\* The common-field accessors of MetaData, by method name.
Accessors ==
    {"interpolator_type", "set_desc", "alphas_q_values", "alphas_vals",
     "alphas_order_qcd", "m_z", "quark_masses", "alphas_type"}

\* A common-field accessor: the field of whichever variant the record is.
Accessor(m, name) ==
    IF name = "quark_masses"
    THEN Ok(<<m.data.m_up, m.data.m_down, m.data.m_strange, m.data.m_charm,
              m.data.m_bottom, m.data.m_top>>)
    ELSE Ok(m.data[name])

\* A faulty deref that builds a V1 view of a V2 record.
DerefFabricate(m) == IF m.ver = "V1" THEN Ok(m.data) ELSE Ok(ToV1(m.data))

\* impl Deref for MetaData
Deref(m) == IF m.ver = "V1" THEN Ok(m.data) ELSE Panic

\* impl DerefMut for MetaData, followed by the caller's store to a field of
\* the &mut MetaDataV1 it returns: the record after the store, or Panic.
DerefMutStore(m, field, value) ==
    IF m.ver = "V1"
    THEN Ok(V1([m.data EXCEPT ![field] = value]))
    ELSE Panic

---------------------------------------------------------------------------
(* MetaData: descriptors, serialization and the version heuristic          *)
(*                                                                         *)
(* A descriptor is the parsed key/value form of an .info file: a function  *)
(* from the serde names of the fields present to their values.  Numbers    *)
(* are written and read back exactly.                                      *)

\* Result::Err of a deserializer.
Err == [ok |-> FALSE, err |-> TRUE]

\* #[serde(rename = ...)]: the key of each field.
SerdeName ==
    [set_desc |-> "SetDesc", set_index |-> "SetIndex",
     num_members |-> "NumMembers", x_min |-> "XMin", x_max |-> "XMax",
     q_min |-> "QMin", q_max |-> "QMax", flavors |-> "Flavors",
     format |-> "Format", alphas_q_values |-> "AlphaS_Qs",
     alphas_vals |-> "AlphaS_Vals", polarised |-> "Polarized",
     set_type |-> "SetType", interpolator_type |-> "InterpolatorType",
     error_type |-> "ErrorType", hadron_pid |-> "Particle",
     git_version |-> "GitVersion", code_version |-> "CodeVersion",
     flavor_scheme |-> "FlavorScheme", order_qcd |-> "OrderQCD",
     alphas_order_qcd |-> "AlphaS_OrderQCD", m_w |-> "MW", m_z |-> "MZ",
     m_up |-> "MUp", m_down |-> "MDown", m_strange |-> "MStrange",
     m_charm |-> "MCharm", m_bottom |-> "MBottom", m_top |-> "MTop",
     alphas_type |-> "AlphaS_Type", number_flavors |-> "NumFlavors",
     xi_min |-> "XiMin", xi_max |-> "XiMax", delta_min |-> "DeltaMin",
     delta_max |-> "DeltaMax"]

\* The field a key belongs to.
FieldOf(key) == CHOOSE f \in DOMAIN SerdeName : SerdeName[f] = key

\* The keys without #[serde(default)]: a descriptor lacking one is an error.
RequiredKeys ==
    {"SetDesc", "SetIndex", "NumMembers", "XMin", "XMax", "QMin", "QMax",
     "Flavors", "Format"}

\* #[serde(rename_all = "lowercase")] of SetType.
SetTypeName(set_type) ==
    IF set_type = "SpaceLike" THEN "spacelike" ELSE "timelike"

SetTypeParse(name) ==
    CASE name = "spacelike" -> Ok("SpaceLike")
      [] name = "timelike" -> Ok("TimeLike")
      [] OTHER -> Err

\* A faulty serializer that writes the V1 keys of either variant.
SerializeSharedOnly(m) ==
    [key \in {SerdeName[f] : f \in SharedFields} |->
        IF FieldOf(key) = "set_type"
        THEN SetTypeName(m.data.set_type)
        ELSE m.data[FieldOf(key)]]

\* #[derive(Serialize)] #[serde(untagged)] of MetaData: the fields of the
\* variant's struct under their keys, with no mark of the variant.
Serialize(m) ==
    LET fields == IF m.ver = "V1"
                  THEN SharedFields
                  ELSE SharedFields \cup V2OnlyFields
    IN [key \in {SerdeName[f] : f \in fields} |->
           IF FieldOf(key) = "set_type"
           THEN SetTypeName(m.data.set_type)
           ELSE m.data[FieldOf(key)]]

\* #[serde(default)]: the value of a key, or the default when it is absent.
Field(d, key, default) == IF key \in DOMAIN d THEN d[key] ELSE default

\* #[derive(Deserialize)] of MetaDataV2.
DeserializeV2(d) ==
    IF ~(RequiredKeys \subseteq DOMAIN d)
    THEN Err
    ELSE IF ~SetTypeParse(Field(d, "SetType", SetTypeName(DefaultSetType))).ok
    THEN Err
    ELSE IF Field(d, "InterpolatorType", DefaultInterpolatorType)
            \notin {InterpolatorTypes[i] : i \in 1..Len(InterpolatorTypes)}
    THEN Err
    ELSE Ok([set_desc |-> d["SetDesc"], set_index |-> d["SetIndex"],
             num_members |-> d["NumMembers"], x_min |-> d["XMin"],
             x_max |-> d["XMax"], q_min |-> d["QMin"], q_max |-> d["QMax"],
             flavors |-> d["Flavors"], format |-> d["Format"],
             alphas_q_values |-> Field(d, "AlphaS_Qs", <<>>),
             alphas_vals |-> Field(d, "AlphaS_Vals", <<>>),
             polarised |-> Field(d, "Polarized", FALSE),
             set_type |-> SetTypeParse(Field(d, "SetType",
                              SetTypeName(DefaultSetType))).val,
             interpolator_type |-> Field(d, "InterpolatorType",
                                         DefaultInterpolatorType),
             error_type |-> Field(d, "ErrorType", ""),
             hadron_pid |-> Field(d, "Particle", 0),
             git_version |-> Field(d, "GitVersion", ""),
             code_version |-> Field(d, "CodeVersion", ""),
             flavor_scheme |-> Field(d, "FlavorScheme", ""),
             order_qcd |-> Field(d, "OrderQCD", 0),
             alphas_order_qcd |-> Field(d, "AlphaS_OrderQCD", 0),
             m_w |-> Field(d, "MW", 0), m_z |-> Field(d, "MZ", 0),
             m_up |-> Field(d, "MUp", 0), m_down |-> Field(d, "MDown", 0),
             m_strange |-> Field(d, "MStrange", 0),
             m_charm |-> Field(d, "MCharm", 0),
             m_bottom |-> Field(d, "MBottom", 0),
             m_top |-> Field(d, "MTop", 0),
             alphas_type |-> Field(d, "AlphaS_Type", ""),
             number_flavors |-> Field(d, "NumFlavors", 0),
             xi_min |-> Field(d, "XiMin", 0),
             xi_max |-> Field(d, "XiMax", 0),
             delta_min |-> Field(d, "DeltaMin", 0),
             delta_max |-> Field(d, "DeltaMax", 0)])

\* f64::abs
Abs(v) == IF v < 0 THEN -v ELSE v

\* A faulty test that takes any non-zero value for V2 data.
HasV2RangesNonZero(v2) ==
    \/ v2.xi_min # 0
    \/ v2.xi_max # 0
    \/ v2.delta_min # 0
    \/ v2.delta_max # 0

\* has_v2_ranges of the deserializer
HasV2Ranges(v2) ==
    \/ Abs(v2.xi_min) > Threshold
    \/ Abs(v2.xi_max) > Threshold
    \/ Abs(v2.delta_min) > Threshold
    \/ Abs(v2.delta_max) > Threshold

\* has_v2_interpolator of the deserializer
HasV2Interpolator(v2) == v2.interpolator_type = "LogFourCubic"

\* impl Deserialize for MetaData
Deserialize(d) ==
    LET parsed == DeserializeV2(d)
    IN IF ~parsed.ok
       THEN Err
       ELSE IF HasV2Ranges(parsed.val) \/ HasV2Interpolator(parsed.val)
       THEN Ok(V2(parsed.val))
       ELSE Ok(V1(ToV1(parsed.val)))

---------------------------------------------------------------------------
(* Inputs *)

OptAxes == <<"nucleons", "alphas", "xi", "delta", "kt">>

AllAxes == OptAxes \o <<"x", "q2">>

\* First node and node spacing of each axis array handed to the
\* constructors: the active ranges [0,1], [1,2], [0,2], [1,3], [0,3] of the
\* optional axes differ pairwise and share the coordinate 1.
FirstNode ==
    [nucleons |-> 0, alphas |-> 1, xi |-> 0, delta |-> 1, kt |-> 0,
     x |-> 0, q2 |-> 1]

Spacing ==
    [nucleons |-> 1, alphas |-> 1, xi |-> 2, delta |-> 2, kt |-> 3,
     x |-> 1, q2 |-> 1]

\* The ascending array of n nodes of an axis.
AxisNodes(axis, n) ==
    [i \in 1..n |-> FirstNode[axis] + (i - 1) * Spacing[axis]]

\* A payload of n pairwise distinct values.
Payload(n) == [i \in 1..n |-> i]

MaxPointLen == Len(AllAxes) + MaxExtra

\* Query points: every coordinate c, except at most one, which is d.
ProbePoints ==
    {[i \in 1..n |-> IF i = k THEN d ELSE c] :
        n \in 0..MaxPointLen, k \in 0..MaxPointLen, c \in Coords, d \in Coords}

---------------------------------------------------------------------------
(* Actions *)

\* No call is in flight: the caller is between two calls.
Idle == [op |-> "none", args |-> <<>>, ret |-> Panic]

Init ==
    /\ sg = NoSubGrid
    /\ last = Idle
    /\ md = NoMetaData

Result(r) == IF r.ok THEN Ok(TRUE) ELSE Panic

New(nucleon_numbers, alphas_values, kt_subgrid, x_subgrid, q2_subgrid, nflav, grid_data) ==
    /\ last = Idle
    /\ ~sg.built
    /\ LET r == SubGridNew(nucleon_numbers, alphas_values, kt_subgrid,
                           x_subgrid, q2_subgrid, nflav, grid_data)
       IN /\ sg' = IF r.ok THEN r.val ELSE sg
          /\ last' = [op |-> "new",
                      args |-> [nucleons |-> nucleon_numbers,
                                alphas |-> alphas_values,
                                xi |-> <<0>>, delta |-> <<0>>,
                                kt |-> kt_subgrid, x |-> x_subgrid,
                                q2 |-> q2_subgrid, nflav |-> nflav,
                                grid_data |-> grid_data],
                      ret |-> Result(r)]
    /\ UNCHANGED md

New8d(nucleon_numbers, alphas_values, xi_values, delta_values, kt_subgrid, x_subgrid, q2_subgrid, nflav, grid_data) ==
    /\ last = Idle
    /\ ~sg.built
    /\ LET r == SubGridNew8d(nucleon_numbers, alphas_values, xi_values,
                             delta_values, kt_subgrid, x_subgrid, q2_subgrid,
                             nflav, grid_data)
       IN /\ sg' = IF r.ok THEN r.val ELSE sg
          /\ last' = [op |-> "new_8d",
                      args |-> [nucleons |-> nucleon_numbers,
                                alphas |-> alphas_values,
                                xi |-> xi_values, delta |-> delta_values,
                                kt |-> kt_subgrid, x |-> x_subgrid,
                                q2 |-> q2_subgrid, nflav |-> nflav,
                                grid_data |-> grid_data],
                      ret |-> Result(r)]
    /\ UNCHANGED md

\* A query leaves the subgrid as it is (&self) and records its result.
Query(op, args, r) ==
    /\ last = Idle
    /\ sg.built
    /\ last' = [op |-> op, args |-> args, ret |-> r]
    /\ UNCHANGED <<sg, md>>

CallContainsPoint(points) ==
    Query("contains_point", points, ContainsPoint(sg, points))

CallDistanceToPoint(points) ==
    Query("distance_to_point", points, DistanceToPoint(sg, points))

CallInterpolationConfig ==
    Query("interpolation_config", <<>>, InterpolationConfig(sg))

CallRanges == Query("ranges", <<>>, Ranges(sg))

CallGridSlice(pid_index) ==
    Query("grid_slice", pid_index, GridSlice(sg, pid_index))

CallGrid6d == Query("grid_6d", <<>>, Grid6d(sg))

CallGrid8d == Query("grid_8d", <<>>, Grid8d(sg))

CallIs8d == Query("is_8d", <<>>, Is8d(sg))

CallAs6d == Query("as_6d", <<>>, As6d(sg.grid))

CallAs8d == Query("as_8d", <<>>, As8d(sg.grid))

\* The caller takes the result of its call and goes on to the next one.
Resume ==
    /\ last # Idle
    /\ last' = Idle
    /\ UNCHANGED <<sg, md>>

\* The payload lengths tried for a shape: its element count, give or take.
PayloadLens(shape) ==
    {n \in (Product(shape) - MaxSlack)..(Product(shape) + MaxSlack) : n >= 0}

\* The node counts of the seven axes of a constructor call.
AxisLenChoices ==
    [{"nucleons", "alphas", "xi", "delta", "kt", "x", "q2"} -> AxisLens]

\* The caller's steps: the guards of a call are stated before its inputs
\* are drawn.
NewStep ==
    /\ last = Idle
    /\ ~sg.built
    /\ \E lens \in AxisLenChoices, nflav \in 1..MaxFlav :
          LET A(axis) == AxisNodes(axis, lens[axis])
          IN /\ lens["xi"] = 1
             /\ lens["delta"] = 1
             /\ \E n \in PayloadLens(NewShape(A("nucleons"), A("alphas"),
                                               A("kt"), A("x"), A("q2"),
                                               nflav)) :
                   New(A("nucleons"), A("alphas"), A("kt"), A("x"), A("q2"),
                       nflav, Payload(n))

New8dStep ==
    /\ last = Idle
    /\ ~sg.built
    /\ \E lens \in AxisLenChoices, nflav \in 1..MaxFlav :
          LET A(axis) == AxisNodes(axis, lens[axis])
          IN \E n \in PayloadLens(New8dShape(A("nucleons"), A("alphas"),
                                              A("xi"), A("delta"), A("kt"),
                                              A("x"), A("q2"), nflav)) :
                New8d(A("nucleons"), A("alphas"), A("xi"), A("delta"),
                      A("kt"), A("x"), A("q2"), nflav, Payload(n))

ContainsPointStep ==
    /\ last = Idle
    /\ sg.built
    /\ \E points \in ProbePoints : CallContainsPoint(points)

DistanceToPointStep ==
    /\ last = Idle
    /\ sg.built
    /\ \E points \in ProbePoints : CallDistanceToPoint(points)

GridSliceStep ==
    /\ last = Idle
    /\ sg.built
    /\ \E pid_index \in 0..MaxFlav : CallGridSlice(pid_index)

Next ==
    \/ NewStep
    \/ New8dStep
    \/ ContainsPointStep
    \/ DistanceToPointStep
    \/ CallInterpolationConfig
    \/ CallRanges
    \/ GridSliceStep
    \/ CallGrid6d
    \/ CallGrid8d
    \/ CallIs8d
    \/ CallAs6d
    \/ CallAs8d
    \/ Resume

Spec == Init /\ [][Next]_vars

---------------------------------------------------------------------------
(* MetaData: inputs *)

\* The xi and delta fields of descriptors and records lie in -MaxMag..MaxMag.
MaxMag == 2

F64Values == (0 - MaxMag)..MaxMag

\* Option<T>: None, or Some(v).
None == <<>>

Some(v) == <<v>>

Optional(S) == {None} \cup {Some(v) : v \in S}

InterpolatorTypeSet == {InterpolatorTypes[i] : i \in 1..Len(InterpolatorTypes)}

\* The keys and values every descriptor handed to the loader has, unless a
\* key is dropped; the values differ from the serde defaults.
BaseDescriptor ==
    [SetDesc |-> "NNPDF40", SetIndex |-> 7, NumMembers |-> 3, XMin |-> 0,
     XMax |-> 1, QMin |-> 2, QMax |-> 9, Flavors |-> <<21, 1, 2>>,
     Format |-> "neopdf", AlphaS_Qs |-> <<2, 9>>, AlphaS_Vals |-> <<4, 3>>,
     Polarized |-> TRUE, SetType |-> "timelike", ErrorType |-> "replicas",
     Particle |-> 2212, GitVersion |-> "abc", CodeVersion |-> "0.2",
     FlavorScheme |-> "variable", OrderQCD |-> 2, AlphaS_OrderQCD |-> 3,
     MW |-> 80, MZ |-> 91, MUp |-> 10, MDown |-> 11, MStrange |-> 12,
     MCharm |-> 13, MBottom |-> 14, MTop |-> 15, AlphaS_Type |-> "ipol",
     NumFlavors |-> 5]

\* A descriptor with an optional key added when it has a value.
With(d, key, opt) == IF opt = None THEN d ELSE (key :> opt[1]) @@ d

\* A descriptor without the keys of a set.
Without(d, keys) == [key \in DOMAIN d \ keys |-> d[key]]

\* The descriptors handed to the loader: the xi and delta keys and the
\* interpolator type are present or absent, and a required key may be
\* missing.
Descriptor(interp, xi_min, xi_max, delta_min, delta_max, missing) ==
    Without(With(With(With(With(With(BaseDescriptor,
        "InterpolatorType", interp), "XiMin", xi_min), "XiMax", xi_max),
        "DeltaMin", delta_min), "DeltaMax", delta_max), missing)

\* The records handed to MetaData::new_v1.
RecordV1(interp) ==
    [set_desc |-> "NNPDF40", set_index |-> 7, num_members |-> 3,
     x_min |-> 0, x_max |-> 1, q_min |-> 2, q_max |-> 9,
     flavors |-> <<21, 1, 2>>, format |-> "neopdf",
     alphas_q_values |-> <<2, 9>>, alphas_vals |-> <<4, 3>>,
     polarised |-> TRUE, set_type |-> "TimeLike",
     interpolator_type |-> interp, error_type |-> "replicas",
     hadron_pid |-> 2212, git_version |-> "abc", code_version |-> "0.2",
     flavor_scheme |-> "variable", order_qcd |-> 2, alphas_order_qcd |-> 3,
     m_w |-> 80, m_z |-> 91, m_up |-> 10, m_down |-> 11, m_strange |-> 12,
     m_charm |-> 13, m_bottom |-> 14, m_top |-> 15, alphas_type |-> "ipol",
     number_flavors |-> 5]

\* The records handed to MetaData::new_v2.
RecordV2(interp, xi_min, xi_max, delta_min, delta_max) ==
    [f \in SharedFields \cup V2OnlyFields |->
        CASE f = "xi_min" -> xi_min
          [] f = "xi_max" -> xi_max
          [] f = "delta_min" -> delta_min
          [] f = "delta_max" -> delta_max
          [] OTHER -> RecordV1(interp)[f]]

\* The values a caller stores into set_index through DerefMut.
StoredIndices == {7, 8}

---------------------------------------------------------------------------
(* MetaData: actions *)

\* Deserializing a descriptor: the record, or an error and no record.
Load(d) ==
    /\ last = Idle
    /\ ~md.loaded
    /\ LET r == Deserialize(d)
       IN /\ md' = IF r.ok THEN r.val ELSE md
          /\ last' = [op |-> "load", args |-> d,
                      ret |-> IF r.ok THEN Ok(TRUE) ELSE Err]
    /\ UNCHANGED sg

\* MetaData::new_v1
NewV1(data) ==
    /\ last = Idle
    /\ ~md.loaded
    /\ md' = V1(data)
    /\ last' = [op |-> "new_v1", args |-> data, ret |-> Ok(TRUE)]
    /\ UNCHANGED sg

\* MetaData::new_v2
NewV2(data) ==
    /\ last = Idle
    /\ ~md.loaded
    /\ md' = V2(data)
    /\ last' = [op |-> "new_v2", args |-> data, ret |-> Ok(TRUE)]
    /\ UNCHANGED sg

\* A &self method of MetaData leaves the record as it is and records its
\* result.
MetaQuery(op, args, r) ==
    /\ last = Idle
    /\ md.loaded
    /\ last' = [op |-> op, args |-> args, ret |-> r]
    /\ UNCHANGED <<sg, md>>

CallAsLatest == MetaQuery("as_latest", <<>>, AsLatest(md))

CallAsLatestV2 == MetaQuery("as_latest_v2", <<>>, AsLatestV2(md))

CallIsV2 == MetaQuery("is_v2", <<>>, IsV2(md))

\* MetaDataV2::to_v1 on the record inside a V2 MetaData.
CallToV1 ==
    /\ md.loaded
    /\ md.ver = "V2"
    /\ MetaQuery("to_v1", <<>>, Ok(ToV1(md.data)))

CallAccessor(name) == MetaQuery(name, <<>>, Accessor(md, name))

CallDeref == MetaQuery("deref", <<>>, Deref(md))

CallSerialize == MetaQuery("serialize", <<>>, Ok(Serialize(md)))

\* deref_mut and the caller's store through the reference it returns.
CallDerefMutStore(field, value) ==
    /\ last = Idle
    /\ md.loaded
    /\ LET r == DerefMutStore(md, field, value)
       IN /\ md' = IF r.ok THEN r.val ELSE md
          /\ last' = [op |-> "deref_mut", args |-> <<field, value>>,
                      ret |-> IF r.ok THEN Ok(TRUE) ELSE Panic]
    /\ UNCHANGED sg

\* The record is saved and the caller goes on with what loading the saved
\* form gives.
Reload ==
    /\ last = Idle
    /\ md.loaded
    /\ LET r == Deserialize(Serialize(md))
       IN /\ md' = IF r.ok THEN r.val ELSE md
          /\ last' = [op |-> "reload", args |-> md,
                      ret |-> IF r.ok THEN Ok(TRUE) ELSE Err]
    /\ UNCHANGED sg

\* The caller goes on with MetaData::new_v2(as_latest_v2()).
Upgrade ==
    /\ last = Idle
    /\ md.loaded
    /\ md' = V2(AsLatestV2(md).val)
    /\ last' = [op |-> "upgrade", args |-> md, ret |-> Ok(TRUE)]
    /\ UNCHANGED sg

\* The caller goes on with MetaData::new_v1(as_latest()).
Downgrade ==
    /\ last = Idle
    /\ md.loaded
    /\ md' = V1(AsLatest(md).val)
    /\ last' = [op |-> "downgrade", args |-> md, ret |-> Ok(TRUE)]
    /\ UNCHANGED sg

LoadStep ==
    /\ last = Idle
    /\ ~md.loaded
    /\ \E interp \in Optional(InterpolatorTypeSet),
          xi_min \in Optional(F64Values), xi_max \in Optional(F64Values),
          delta_min \in Optional(F64Values),
          delta_max \in Optional(F64Values),
          missing \in {{}, {"Format"}} :
          Load(Descriptor(interp, xi_min, xi_max, delta_min, delta_max,
                          missing))

NewV1Step ==
    /\ last = Idle
    /\ ~md.loaded
    /\ \E interp \in InterpolatorTypeSet : NewV1(RecordV1(interp))

NewV2Step ==
    /\ last = Idle
    /\ ~md.loaded
    /\ \E interp \in InterpolatorTypeSet, xi_min \in F64Values,
          xi_max \in F64Values, delta_min \in F64Values,
          delta_max \in F64Values :
          NewV2(RecordV2(interp, xi_min, xi_max, delta_min, delta_max))

AccessorStep ==
    /\ last = Idle
    /\ md.loaded
    /\ \E name \in Accessors : CallAccessor(name)

DerefMutStoreStep ==
    /\ last = Idle
    /\ md.loaded
    /\ \E value \in StoredIndices : CallDerefMutStore("set_index", value)

MetaNext ==
    \/ LoadStep
    \/ NewV1Step
    \/ NewV2Step
    \/ CallAsLatest
    \/ CallAsLatestV2
    \/ CallIsV2
    \/ CallToV1
    \/ AccessorStep
    \/ CallDeref
    \/ CallSerialize
    \/ DerefMutStoreStep
    \/ Reload
    \/ Upgrade
    \/ Downgrade
    \/ Resume

MetaSpec == Init /\ [][MetaNext]_vars

---------------------------------------------------------------------------
(* ParamRange on its own *)

\* ParamRange::new followed by ParamRange::contains.
CallContains(min, max, value) ==
    /\ last = Idle
    /\ last' = [op |-> "contains",
                args |-> [range |-> ParamRangeNew(min, max), value |-> value],
                ret |-> Ok(Contains(ParamRangeNew(min, max), value))]
    /\ UNCHANGED <<sg, md>>

\* Range bounds and values lie in -1..MaxCoord + 1.
RangeValues == (0 - 1)..(MaxCoord + 1)

ContainsStep ==
    /\ last = Idle
    /\ \E min \in RangeValues, max \in RangeValues, value \in RangeValues :
          CallContains(min, max, value)

RangeNext ==
    \/ ContainsStep
    \/ Resume

RangeSpec == Init /\ [][RangeNext]_vars

---------------------------------------------------------------------------
(* Vocabulary of the properties *)

\* The node array of an axis of a subgrid.
NodesOf(s, axis) ==
    CASE axis = "nucleons" -> s.nucleons
      [] axis = "alphas" -> s.alphas
      [] axis = "xi" -> s.xis
      [] axis = "delta" -> s.deltas
      [] axis = "kt" -> s.kts
      [] axis = "x" -> s.xs
      [] axis = "q2" -> s.q2s

OptAxisSet == {OptAxes[i] : i \in 1..Len(OptAxes)}

\* The optional axes with more than one node.
ActiveAxes(s) == {a \in OptAxisSet : Len(NodesOf(s, a)) > 1}

\* The active optional axes in the canonical order, then x and Q2.
IsActiveIn(s, a) == a \in ActiveAxes(s)

CanonicalAxes(s) ==
    LET Keep(a) == IsActiveIn(s, a)
    IN SelectSeq(OptAxes, Keep) \o <<"x", "q2">>

\* The documented class of each documented active-axis pattern.
DocumentedPatterns ==
    {{}, {"nucleons"}, {"alphas"}, {"xi"}, {"delta"}, {"kt"},
     {"nucleons", "alphas"}, {"nucleons", "kt"}, {"alphas", "kt"},
     {"xi", "delta"}, {"kt", "xi", "delta"},
     {"nucleons", "kt", "xi", "delta"},
     {"nucleons", "alphas", "xi", "delta", "kt"}}

DocumentedClass(pattern) ==
    CASE pattern = {} -> "TwoD"
      [] pattern = {"nucleons"} -> "ThreeDNucleons"
      [] pattern = {"alphas"} -> "ThreeDAlphas"
      [] pattern = {"xi"} -> "ThreeDXi"
      [] pattern = {"delta"} -> "ThreeDDelta"
      [] pattern = {"kt"} -> "ThreeDKt"
      [] pattern = {"nucleons", "alphas"} -> "FourDNucleonsAlphas"
      [] pattern = {"nucleons", "kt"} -> "FourDNucleonsKt"
      [] pattern = {"alphas", "kt"} -> "FourDAlphasKt"
      [] pattern = {"xi", "delta"} -> "FourDXiDelta"
      [] pattern = {"kt", "xi", "delta"} -> "FiveD"
      [] pattern = {"nucleons", "kt", "xi", "delta"} -> "SixD"
      [] pattern = {"nucleons", "alphas", "xi", "delta", "kt"} -> "SevenD"

Documented(s) == ActiveAxes(s) \in DocumentedPatterns

\* A point has one coordinate per active optional axis, then x and Q2.
MatchingLen(s, points) == Len(points) = Cardinality(ActiveAxes(s)) + 2

\* The squared gap between a coordinate and an inclusive interval.
GapSq(min, max, v) ==
    CASE v < min -> (min - v) * (min - v)
      [] v > max -> (v - max) * (v - max)
      [] OTHER -> 0

\* Every coordinate of a point, read in the canonical axis order, lies in
\* the range of its axis.
AllInRange(s, points) ==
    LET axes == CanonicalAxes(s)
    IN \A i \in 1..Len(axes) :
          /\ NodesOf(s, axes[i])[1] <= points[i]
          /\ points[i] <= NodesOf(s, axes[i])[Len(NodesOf(s, axes[i]))]

---------------------------------------------------------------------------
(* C1: for a subgrid of a documented class and a point with one coordinate *)
(* per active axis plus x and Q2, distance_to_point is 0 exactly when      *)
(* contains_point is true.                                                 *)
C1_DistanceZeroIffContains ==
    (/\ last.op = "distance_to_point"
     /\ Documented(sg)
     /\ MatchingLen(sg, last.args))
    => ((last.ret.val = 0) <=> (ContainsPoint(sg, last.args) = Ok(TRUE)))

(* C2: for a point of the expected length given in the canonical axis      *)
(* order, contains_point is true exactly when every coordinate lies in the *)
(* range of its own axis, in every documented class.                       *)
C2_ContainsIffAllInRange ==
    (/\ last.op = "contains_point"
     /\ Documented(sg)
     /\ MatchingLen(sg, last.args))
    => last.ret = Ok(AllInRange(sg, last.args))

(* C3: contains_point with a point whose length differs from the expected *)
(* length of the subgrid's class returns false and does not panic.         *)
C3_LengthMismatchIsFalse ==
    (/\ last.op = "contains_point"
     /\ Documented(sg)
     /\ ~MatchingLen(sg, last.args))
    => last.ret = Ok(FALSE)

\* A SevenD subgrid was asked about a point that is too short.
C3_Witness ==
    /\ last.op = "contains_point"
    /\ Cardinality(ActiveAxes(sg)) = 5
    /\ Len(last.args) < 7
    /\ last.ret = Ok(FALSE)

\* The sum of the squared gaps of a point's coordinates, read in the
\* canonical axis order, to the ranges of their axes.
GapSum(s, points) ==
    LET axes == CanonicalAxes(s)
        gap == [i \in 1..Len(axes) |->
                   GapSq(NodesOf(s, axes[i])[1],
                         NodesOf(s, axes[i])[Len(NodesOf(s, axes[i]))],
                         points[i])]
    IN SumTo(gap, Len(axes))

(* C4: distance_to_point is the sum, over the active optional axes and x   *)
(* and Q2, of the squared gap between the point's coordinate and the axis  *)
(* range; pinned axes contribute nothing.                                  *)
C4_DistanceIsGapSum ==
    (/\ last.op = "distance_to_point"
     /\ MatchingLen(sg, last.args))
    => last.ret = Ok(GapSum(sg, last.args))

\* A point inside every range but x, which it exceeds by 2: distance 4.
C4_Witness ==
    /\ last.op = "distance_to_point"
    /\ MatchingLen(sg, last.args)
    /\ ActiveAxes(sg) # {}
    /\ last.args[Len(last.args) - 1] = sg.xs[Len(sg.xs)] + 2
    /\ \A i \in 1..Len(last.args) :
          i # Len(last.args) - 1 =>
              GapSq(NodesOf(sg, CanonicalAxes(sg)[i])[1],
                    NodesOf(sg, CanonicalAxes(sg)[i])[
                        Len(NodesOf(sg, CanonicalAxes(sg)[i]))],
                    last.args[i]) = 0
    /\ last.ret = Ok(4)

\* The set of the elements of a sequence.
SeqSet(q) == {q[i] : i \in 1..Len(q)}

ArgPattern(args) == {a \in OptAxisSet : Len(args[a]) > 1}

(* C6: construction aborts when the active-axis pattern has no documented  *)
(* class, so no such subgrid is ever available for queries.                *)
C6_UndocumentedRejectedAtConstruction ==
    /\ (last.op \in {"new", "new_8d"}
        /\ ArgPattern(last.args) \notin DocumentedPatterns)
       => last.ret = Panic
    /\ sg.built => Documented(sg)

\* The number of elements the arrays and flavor count of a constructor
\* call ask for.
ExpectedCells(args) ==
    Len(args.nucleons) * Len(args.alphas) * Len(args.xi) * Len(args.delta)
    * Len(args.kt) * Len(args.x) * Len(args.q2) * args.nflav

(* C7: after new_8d, grid_8d() read at (a, s, xi, d, k, f, i, j) is the     *)
(* payload element at the row-major position of that index in the order    *)
(* [nucleons, alphas, xi, delta, kT, flavor, x, Q2].                       *)
C7_RoundTrip8d ==
    (last.op = "new_8d" /\ last.ret.ok)
    => LET A == last.args
           g == Grid8d(sg)
       IN /\ g.ok
          /\ \A a \in 0..(Len(A.nucleons) - 1), s \in 0..(Len(A.alphas) - 1),
                xi \in 0..(Len(A.xi) - 1), d \in 0..(Len(A.delta) - 1),
                k \in 0..(Len(A.kt) - 1), f \in 0..(A.nflav - 1),
                i \in 0..(Len(A.x) - 1), j \in 0..(Len(A.q2) - 1) :
                /\ InBounds(g.val, <<a, s, xi, d, k, f, i, j>>)
                /\ At(g.val, <<a, s, xi, d, k, f, i, j>>)
                   = A.grid_data[1 + ((((((a * Len(A.alphas) + s)
                                          * Len(A.xi) + xi)
                                         * Len(A.delta) + d)
                                        * Len(A.kt) + k)
                                       * A.nflav + f)
                                      * Len(A.x) + i)
                                     * Len(A.q2) + j]

\* new_8d built a grid with two nodes on every axis and two flavors.
C7_Witness ==
    /\ last.op = "new_8d"
    /\ last.ret.ok
    /\ last.args.nflav = 2
    /\ Len(last.args.grid_data) = 256

(* C8 as stated: after SubGrid::new, grid_6d() read at (a, s, f, k, i, j)   *)
(* is the payload element at the row-major position of that index in the   *)
(* order [nucleons, alphas, flavor, kT, x, Q2].                            *)
C8_RoundTrip6dCanonicalPayload ==
    (last.op = "new" /\ last.ret.ok)
    => LET A == last.args
           g == Grid6d(sg)
       IN /\ g.ok
          /\ \A a \in 0..(Len(A.nucleons) - 1), s \in 0..(Len(A.alphas) - 1),
                f \in 0..(A.nflav - 1), k \in 0..(Len(A.kt) - 1),
                i \in 0..(Len(A.x) - 1), j \in 0..(Len(A.q2) - 1) :
                /\ InBounds(g.val, <<a, s, f, k, i, j>>)
                /\ At(g.val, <<a, s, f, k, i, j>>)
                   = A.grid_data[1 + ((((a * Len(A.alphas) + s)
                                        * A.nflav + f)
                                       * Len(A.kt) + k)
                                      * Len(A.x) + i)
                                     * Len(A.q2) + j]

(* C8 amended: the payload is laid out row-major in the order [nucleons,   *)
(* alphas, kT, x, Q2, flavor]; grid_6d() read at (a, s, f, k, i, j) is the  *)
(* payload element at the row-major position of (a, s, k, i, j, f).        *)
C8_RoundTrip6dFlavorLastPayload ==
    (last.op = "new" /\ last.ret.ok)
    => LET A == last.args
           g == Grid6d(sg)
       IN /\ g.ok
          /\ \A a \in 0..(Len(A.nucleons) - 1), s \in 0..(Len(A.alphas) - 1),
                f \in 0..(A.nflav - 1), k \in 0..(Len(A.kt) - 1),
                i \in 0..(Len(A.x) - 1), j \in 0..(Len(A.q2) - 1) :
                /\ InBounds(g.val, <<a, s, f, k, i, j>>)
                /\ At(g.val, <<a, s, f, k, i, j>>)
                   = A.grid_data[1 + ((((a * Len(A.alphas) + s)
                                        * Len(A.kt) + k)
                                       * Len(A.x) + i)
                                      * Len(A.q2) + j)
                                     * A.nflav + f]

\* SubGrid::new built a grid with two flavors and two nodes on every axis.
C8_Witness ==
    /\ last.op = "new"
    /\ last.ret.ok
    /\ last.args.nflav = 2
    /\ Len(last.args.grid_data) = 64

\* The flavor count of a built subgrid: the length of its grid's flavor axis.
FlavorCount(s) ==
    IF s.grid.kind = "Grid6D" THEN s.grid.arr.shape[3] ELSE s.grid.arr.shape[6]

\* The product of the seven axis lengths of a built subgrid.
AxisCells(s) ==
    Len(s.nucleons) * Len(s.alphas) * Len(s.xis) * Len(s.deltas) * Len(s.kts)
    * Len(s.xs) * Len(s.q2s)

(* C9: a constructor succeeds exactly when the payload length is the       *)
(* product of the axis lengths times the flavor count; every built subgrid *)
(* holds that many grid elements.                                          *)
C9_PayloadLengthChecked ==
    /\ last.op \in {"new", "new_8d"}
       => /\ last.ret.ok <=> Len(last.args.grid_data) = ExpectedCells(last.args)
          /\ last.ret.ok => FlavorCount(sg) = last.args.nflav
    /\ sg.built
       => /\ Len(sg.grid.arr.data) = AxisCells(sg) * FlavorCount(sg)
          /\ Product(sg.grid.arr.shape) = AxisCells(sg) * FlavorCount(sg)

\* A constructor was handed one element too many and aborted.
C9_Witness ==
    /\ last.op = "new_8d"
    /\ Len(last.args.grid_data) = ExpectedCells(last.args) + 1
    /\ last.ret = Panic

(* C10: grid_slice returns a slice only when every optional axis has one   *)
(* node (TwoD); for every other pattern it aborts, for both grid variants. *)
C10_GridSliceOnlyTwoD ==
    (last.op = "grid_slice" /\ ActiveAxes(sg) # {}) => last.ret = Panic

\* grid_slice aborted on a fixed-rank subgrid whose only active axis is kT.
C10_Witness ==
    /\ last.op = "grid_slice"
    /\ sg.grid.kind = "Grid6D"
    /\ ActiveAxes(sg) = {"kt"}
    /\ last.ret = Panic

\* The payload a built subgrid was constructed from: the constructor calls
\* hand over Payload(n), and a subgrid is built only when n is its element
\* count.
PayloadOf(s) == Payload(Len(s.grid.arr.data))

\* The plane of flavor f read from a payload laid out row-major with the
\* flavor before x and Q2, as in [.., flavor, x, Q2].
PlaneFlavorFirst(payload, nx, nq, f) ==
    [i \in 1..nx |-> [j \in 1..nq |->
        payload[1 + (f * nx + (i - 1)) * nq + (j - 1)]]]

\* The plane of flavor f read from a payload laid out row-major with the
\* flavor after x and Q2, as in [.., x, Q2, flavor].
PlaneFlavorLast(payload, nx, nq, nflav, f) ==
    [i \in 1..nx |-> [j \in 1..nq |->
        payload[1 + ((i - 1) * nq + (j - 1)) * nflav + f]]]

(* C11 as stated: on a TwoD subgrid grid_slice(f) is the Nx-by-Nq plane of *)
(* flavor f of the payload in the documented layout (flavor before x and   *)
(* Q2), the same for SubGrid::new and SubGrid::new_8d.                     *)
C11_SliceIsDocumentedPlane ==
    (/\ last.op = "grid_slice"
     /\ ActiveAxes(sg) = {}
     /\ last.args < FlavorCount(sg))
    => last.ret = Ok([nrows |-> Len(sg.xs), ncols |-> Len(sg.q2s),
                      elems |-> PlaneFlavorFirst(PayloadOf(sg), Len(sg.xs),
                                                 Len(sg.q2s), last.args)])

(* C11 amended: on a TwoD subgrid grid_slice(f) is the Nx-by-Nq plane of    *)
(* flavor f of the payload, read flavor-last ([x, Q2, flavor]) when the    *)
(* subgrid was built by SubGrid::new and flavor-first ([flavor, x, Q2])    *)
(* when it was built by SubGrid::new_8d.                                   *)
C11_SliceIsConstructorPlane ==
    (/\ last.op = "grid_slice"
     /\ ActiveAxes(sg) = {}
     /\ last.args < FlavorCount(sg))
    => last.ret = Ok([nrows |-> Len(sg.xs), ncols |-> Len(sg.q2s),
                      elems |-> IF sg.grid.kind = "Grid6D"
                                THEN PlaneFlavorLast(PayloadOf(sg),
                                         Len(sg.xs), Len(sg.q2s),
                                         FlavorCount(sg), last.args)
                                ELSE PlaneFlavorFirst(PayloadOf(sg),
                                         Len(sg.xs), Len(sg.q2s),
                                         last.args)])

\* The second flavor's 2-by-2 plane was sliced from a fixed-rank subgrid.
C11_Witness ==
    /\ last.op = "grid_slice"
    /\ sg.grid.kind = "Grid6D"
    /\ ActiveAxes(sg) = {}
    /\ Len(sg.xs) = 2
    /\ Len(sg.q2s) = 2
    /\ FlavorCount(sg) = 2
    /\ last.args = 1
    /\ last.ret.ok
    /\ last.ret.val.elems = <<<<2, 4>>, <<6, 8>>>>

(* C12: the rank accessors never coerce: SubGrid::new builds a fixed-rank  *)
(* grid and SubGrid::new_8d a variable-rank one, whatever the axes; on a   *)
(* fixed-rank grid grid_6d/as_6d return the grid, grid_8d/as_8d abort and  *)
(* is_8d is false; on a variable-rank grid it is the other way round.      *)
C12_NoRankCoercion ==
    /\ (last.op = "new" /\ last.ret.ok) => sg.grid.kind = "Grid6D"
    /\ (last.op = "new_8d" /\ last.ret.ok) => sg.grid.kind = "Grid8D"
    /\ last.op \in {"grid_6d", "as_6d"}
       => last.ret = IF sg.grid.kind = "Grid6D"
                     THEN Ok(sg.grid.arr) ELSE Panic
    /\ last.op \in {"grid_8d", "as_8d"}
       => last.ret = IF sg.grid.kind = "Grid8D"
                     THEN Ok(sg.grid.arr) ELSE Panic
    /\ last.op = "is_8d" => last.ret = Ok(sg.grid.kind = "Grid8D")
    /\ sg.built => /\ sg.grid.kind \in {"Grid6D", "Grid8D"}
                   /\ Len(sg.grid.arr.shape)
                      = IF sg.grid.kind = "Grid6D" THEN 6 ELSE 8

\* grid_6d aborted on a variable-rank subgrid whose xi and delta are pinned.
C12_Witness ==
    /\ last.op = "grid_6d"
    /\ sg.grid.kind = "Grid8D"
    /\ Len(sg.xis) = 1
    /\ Len(sg.deltas) = 1
    /\ last.ret = Panic

---------------------------------------------------------------------------
(* Vocabulary of the MetaData properties *)

\* The value a descriptor gives one of the xi/delta keys: 0.0 when absent.
KeyValue(d, key) == IF key \in DOMAIN d THEN d[key] ELSE 0

\* A value differs from zero by more than 1e-10.
BeyondThreshold(v) == v > Threshold \/ v < 0 - Threshold

V2OnlyKeys == {"XiMin", "XiMax", "DeltaMin", "DeltaMax"}

\* A descriptor names the V2-only interpolator.
NamesLogFourCubic(d) ==
    "InterpolatorType" \in DOMAIN d /\ d["InterpolatorType"] = "LogFourCubic"

\* The value a descriptor gives a shared field of the records; the
\* descriptors handed to the loader have every shared key but, possibly,
\* the interpolator type.
ParsedValue(d, f) ==
    CASE f = "set_type" ->
            IF d["SetType"] = "spacelike" THEN "SpaceLike" ELSE "TimeLike"
      [] f = "interpolator_type" ->
            IF "InterpolatorType" \in DOMAIN d
            THEN d["InterpolatorType"] ELSE "LogBicubic"
      [] OTHER -> d[SerdeName[f]]

\* Two records agree on every field of the V1 schema.
SameShared(a, b) == \A f \in SharedFields : a[f] = b[f]

\* The xi range of a V2 record is [1,1] and its delta range [0,0].
Neutral(v2) ==
    /\ v2.xi_min = One
    /\ v2.xi_max = One
    /\ v2.delta_min = 0
    /\ v2.delta_max = 0

(* C13: a loaded descriptor is a V2 record exactly when one of XiMin,      *)
(* XiMax, DeltaMin, DeltaMax (0.0 when absent) differs from zero by more   *)
(* than 1e-10 or the interpolator type is LogFourCubic; otherwise it is a  *)
(* V1 record without the xi/delta fields; every shared field has the       *)
(* parsed value.                                                           *)
C13_VersionHeuristic ==
    (last.op = "load" /\ last.ret.ok)
    => LET d == last.args
           is_v2 == \/ \E key \in V2OnlyKeys :
                          BeyondThreshold(KeyValue(d, key))
                    \/ NamesLogFourCubic(d)
       IN /\ md.loaded
          /\ md.ver = IF is_v2 THEN "V2" ELSE "V1"
          /\ DOMAIN md.data = IF is_v2
                              THEN SharedFields \cup V2OnlyFields
                              ELSE SharedFields
          /\ \A f \in SharedFields : md.data[f] = ParsedValue(d, f)
          /\ is_v2 => \A f \in V2OnlyFields :
                          md.data[f] = KeyValue(d, SerdeName[f])

\* A descriptor without XiMin and with DeltaMax = 1e-10 was loaded as V1.
C13_Witness ==
    /\ last.op = "load"
    /\ last.ret.ok
    /\ "XiMin" \notin DOMAIN last.args
    /\ "DeltaMax" \in DOMAIN last.args
    /\ last.args["DeltaMax"] = Threshold
    /\ md.ver = "V1"

(* C14: a descriptor with XiMin = XiMax = 1.0, DeltaMin = DeltaMax = 0.0   *)
(* and an interpolator type other than LogFourCubic loads as a V1 record.  *)
C14_NeutralLoadsAsV1 ==
    (/\ last.op = "load"
     /\ last.ret.ok
     /\ V2OnlyKeys \subseteq DOMAIN last.args
     /\ last.args["XiMin"] = One
     /\ last.args["XiMax"] = One
     /\ last.args["DeltaMin"] = 0
     /\ last.args["DeltaMax"] = 0
     /\ ~NamesLogFourCubic(last.args))
    => /\ md.ver = "V1"
       /\ IsV2(md) = Ok(FALSE)

(* C15: V1 -> V2 sets the xi range to [1,1] and the delta range to [0,0]   *)
(* and copies every shared field; V2 -> V1 copies every shared field and   *)
(* drops xi/delta; V2 -> V1 -> V2 gives the original record exactly when   *)
(* its xi range was [1,1] and its delta range [0,0].                       *)
C15_Conversions ==
    /\ last.op = "as_latest_v2"
       => /\ last.ret.ok
          /\ DOMAIN last.ret.val = SharedFields \cup V2OnlyFields
          /\ SameShared(last.ret.val, md.data)
          /\ md.ver = "V1" => Neutral(last.ret.val)
          /\ md.ver = "V2" => last.ret.val = md.data
    /\ last.op \in {"as_latest", "to_v1"}
       => /\ last.ret.ok
          /\ DOMAIN last.ret.val = SharedFields
          /\ SameShared(last.ret.val, md.data)
          /\ md.ver = "V2"
             => (FromV1(last.ret.val) = md.data <=> Neutral(md.data))

\* A V2 record with the neutral ranges was converted to V1, and converting
\* the result back gives the record again.
C15_Witness ==
    /\ last.op = "as_latest"
    /\ md.ver = "V2"
    /\ Neutral(md.data)
    /\ FromV1(last.ret.val) = md.data

(* C16: converting a V1 record to V2 and back to V1 gives a record equal   *)
(* to it on every shared field, the interpolator type included.            *)
C16_V1RoundTrip ==
    (last.op = "as_latest_v2" /\ md.ver = "V1")
    => /\ ToV1(last.ret.val) = md.data
       /\ SameShared(ToV1(last.ret.val), md.data)

\* A V1 record with the LogChebyshev interpolator went to V2 and back.
C16_Witness ==
    /\ last.op = "as_latest_v2"
    /\ md.ver = "V1"
    /\ md.data.interpolator_type = "LogChebyshev"
    /\ ToV1(last.ret.val).interpolator_type = "LogChebyshev"

NewValueOps == {"reload", "upgrade", "downgrade"}

(* C18: once built, a SubGrid is never changed, and a MetaData record is   *)
(* never changed in place: the caller holds a different record only after  *)
(* a step that produces a new value.                                       *)
C18_NoOperationMutates ==
    [][/\ sg.built => sg' = sg
       /\ (md.loaded /\ md' # md) => last'.op \in NewValueOps]_vars

(* C19: for a range with min <= max, contains is true at min, at max and   *)
(* strictly between them, and false below min and above max.               *)
C19_ContainsInclusive ==
    (last.op = "contains" /\ last.args.range.min <= last.args.range.max)
    => LET r == last.args.range
           v == last.args.value
       IN /\ v = r.min => last.ret = Ok(TRUE)
          /\ v = r.max => last.ret = Ok(TRUE)
          /\ (r.min < v /\ v < r.max) => last.ret = Ok(TRUE)
          /\ (v < r.min \/ v > r.max) => last.ret = Ok(FALSE)

\* contains was true at the upper end of a range that is not a point.
C19_Witness ==
    /\ last.op = "contains"
    /\ last.args.range.min < last.args.range.max
    /\ last.args.value = last.args.range.max
    /\ last.ret = Ok(TRUE)

(* C20 as stated: loading the saved form of any record gives a record of   *)
(* the same variant with every field equal.                                *)
C20_ReloadIsIdentity ==
    last.op = "reload" => (last.ret.ok /\ md = last.args)

\* A record carries V2 data the loader recognises.
HasV2Data(m) ==
    \/ m.data.interpolator_type = "LogFourCubic"
    \/ /\ m.ver = "V2"
       /\ \E f \in V2OnlyFields : BeyondThreshold(m.data[f])

(* C20 amended: loading the saved form of a record m gives a record equal  *)
(* to m on every shared field; it is V2 exactly when m's interpolator is   *)
(* LogFourCubic or m is V2 with an xi/delta value beyond 1e-10, and then   *)
(* has m's xi/delta values (0.0 for a V1 m); saving and loading the result *)
(* again gives the result itself.                                          *)
C20_ReloadKeepsRecognisedData ==
    last.op = "reload"
    => LET m == last.args
       IN /\ last.ret.ok
          /\ SameShared(md.data, m.data)
          /\ md.ver = IF HasV2Data(m) THEN "V2" ELSE "V1"
          /\ md.ver = "V2"
             => \A f \in V2OnlyFields :
                   md.data[f] = IF m.ver = "V2" THEN m.data[f] ELSE 0
          /\ md.ver = "V1" => DOMAIN md.data = SharedFields
          /\ (m.ver = "V1" /\ ~HasV2Data(m)) => md = m
          /\ (m.ver = "V2" /\ HasV2Data(m)) => md = m
          /\ Deserialize(Serialize(md)) = Ok(md)

\* A V2 record with the neutral ranges was saved and loaded unchanged.
C20_Witness ==
    /\ last.op = "reload"
    /\ last.args.ver = "V2"
    /\ Neutral(last.args.data)
    /\ md = last.args

====
